---- MODULE Spec2Model ----
(***************************************************************************)
(* typed-msg: the message envelope protocol and dispatch core.             *)
(*                                                                         *)
(* Receiver (src/src/services/Receiver.ts, lines 21-122) is the           *)
(* receiving-side listener with its handler registry; createMessaging     *)
(* (same file, lines 166-252) builds the sending-side proxy and the       *)
(* receive() factory; Failure/failure (src/src/utils/Failure.ts) and      *)
(* Success/success (src/unnamed/part_000) are the result sentinels.       *)
(* chrome.runtime is the host transport: it carries JSON-like values only, *)
(* hands a message to every installed listener and keeps the first reply.  *)
(***************************************************************************)
EXTENDS Integers, Sequences, FiniteSets, TLC

\* ------------------------------------------------------------------ bounds
MaxReceivers == 2
MaxCalls == 1
\* Messages in flight at once on one Receiver, in the concurrent specification
MaxInFlight == 2
\* Results built with the helpers, in the specification of the helpers
MaxBuilt == 2

\* ------------------------------------------------------------ input domains
Scopes == {"storage", "tabs"}
\* The scopes a sender proxy is made for: const storage = sender('storage')
SenderScopes == {"storage"}
\* Names a handler can be stored under, and names that every object literal
\* already answers to through Object.prototype.
OwnNames == {"getSettings"}
ProtoNames == {"toString"}
Names == OwnNames \cup ProtoNames
HandlerIds == {"h1", "h2"}
NoHandler == "undefined"

\* ---------------------------------------------------------------- JS values
Val(t, v) == [t |-> t, v |-> v, scope |-> "", name |-> ""]
Undefined == Val("undefined", "")
Absent == Val("absent", "")
Str(s) == Val("string", s)
Bool(b) == Val("boolean", IF b THEN "true" ELSE "false")
Obj(o) == Val("object", o)
Err(m) == Val("Error", m)
Null == Val("null", "")
Num(n) == Val("number", n)

\* new Failure(InternalKey, message)
Failure(message) == Val("Failure", message)

\* class MessagingError extends Error { scope, name, message }
MessagingError(scope, name, message) ==
  [t |-> "MessagingError", v |-> message, scope |-> scope, name |-> name]

\* A failure test by shape: typeof v?.message === 'string'
InstanceofFailureMutShape(value) ==
  value.t \in {"Failure", "Error", "MessagingError"}

\* v instanceof Failure
InstanceofFailure(value) == value.t = "Failure"

\* v instanceof Error (MessagingError extends Error)
InstanceofError(value) == value.t \in {"Error", "MessagingError"}

\* Success[Symbol.hasInstance]
InstanceofSuccess(value) == ~InstanceofFailure(value)

\* ToBoolean, as used by `if (x)`, `!x` and `x ? a : b`
Truthy(value) ==
  CASE value.t \in {"undefined", "absent", "null"} -> FALSE
    [] value.t = "string" -> value.v # ""
    [] value.t = "boolean" -> value.v = "true"
    [] OTHER -> TRUE

\* String(x)
String(value) ==
  CASE value.t = "string" -> value.v
    [] value.t = "undefined" -> "undefined"
    [] value.t = "boolean" -> value.v
    [] value.t = "number" -> value.v
    [] value.t = "null" -> "null"
    [] value.t \in {"Error", "MessagingError"} ->
         IF value.v = "" THEN "Error" ELSE "Error: " \o value.v
    [] OTHER -> "[object Object]"

\* success(data): the data itself
success(data) == data

\* failure(data): new Failure(InternalKey, String(data))
failure(data) == Failure(String(data))

\* ---------------------------------------------------------------- envelopes
\* A response object literal: a field that was never written is Absent.
\* No literal of the program writes a `message` field.
Env(e, s, d) == [error |-> e, success |-> s, data |-> d, message |-> Absent]

\* message.<field>: reading a field that is not there gives undefined
Prop(message, field) ==
  IF message[field] = Absent THEN Undefined ELSE message[field]

\* What the transport does to one field of a message: a field holding
\* undefined is dropped, a class instance arrives as a plain object.
WireField(value) ==
  CASE value.t = "undefined" -> Absent
    [] value.t \in {"Failure", "Error", "MessagingError"} -> Obj(value.v)
    [] OTHER -> value

Wire(envelope) ==
  [f \in DOMAIN envelope |-> WireField(envelope[f])]

\* The error reply carrying both discriminants: { error, success: false }.
ErrorReplyMutWithSuccess(e) ==
  Env(Str(IF InstanceofError(e) THEN e.v ELSE String(e)), Bool(FALSE), Absent)

\* ---------------------------------------------------------------- messages
\* A message as the host hands it to a listener: an object with the fields
\* it was sent with, or a value that has no fields at all.
Message(scope, name, req) ==
  [t |-> "object", scope |-> scope, name |-> name, req |-> req]
Fieldless(t) == [t |-> t, scope |-> Absent, name |-> Absent, req |-> Absent]

\* { scope, name, req } as it arrives
RequestMessage(scope, name, req) ==
  Message(Str(scope), Str(name), WireField(req))

\* typeof x
Typeof(value) ==
  CASE value.t \in {"undefined", "absent"} -> "undefined"
    [] value.t \in {"string", "boolean", "number"} -> value.t
    [] OTHER -> "object"

\* message?.field
Chain(message, field) ==
  IF message.t \in {"null", "undefined"} THEN Undefined ELSE Prop(message, field)

\* The guard testing the scope only: typeof message?.scope === 'string'
_typedMutScopeOnly(message) ==
  Typeof(Chain(message, "scope")) = "string"

\* typeof message?.scope === 'string' && typeof message?.name === 'string'
_typed(message) ==
  /\ Typeof(Chain(message, "scope")) = "string"
  /\ Typeof(Chain(message, "name")) = "string"

\* const { scope, name, req } = message; scope and name are then used as
\* strings (compared with this._scope, property key of this._handlers).
Destructure(message) ==
  [scope |-> String(Prop(message, "scope")),
   name |-> String(Prop(message, "name")),
   req |-> message.req]

\* What a page or another extension can pass to chrome.runtime.sendMessage
\* without the proxy: null, undefined, a string, and objects whose scope and
\* name are missing, numbers or strings.
RawScopes == {Absent, Num("1"), Str("storage")}
RawNames == {Absent, Num("1"), Str("getSettings")}
RawMessages ==
  {Fieldless("null"), Fieldless("undefined"), Fieldless("string")}
    \cup {Message(scope, name, Absent) : scope \in RawScopes, name \in RawNames}

\* { error: e instanceof Error ? e.message : String(e) }
ErrorReply(e) ==
  Env(Str(IF InstanceofError(e) THEN e.v ELSE String(e)), Absent, Absent)

\* { error: 'ハンドラーが未定義です。' }
NoHandlerText == "handler is undefined"
\* The no-handler reply with an empty text: { error: '' }
NoHandlerReplyMutNoText == Env(Str(""), Absent, Absent)
NoHandlerReply == Env(Str(NoHandlerText), Absent, Absent)

\* The reply without its payload: { success: !(res instanceof Failure) }.
ResultReplyMutNoData(res) ==
  Env(Absent,
      Bool(~InstanceofFailure(res)),
      IF InstanceofFailure(res) THEN Str(res.v) ELSE Absent)

\* The reply carrying the Failure instance itself: { success, data: res }.
ResultReplyMutRawFailure(res) ==
  Env(Absent, Bool(~InstanceofFailure(res)), res)

\* The reply with the text of a Failure in a field of its own:
\* { success: false, message: res.message }.
ResultReplyMutMessageField(res) ==
  IF InstanceofFailure(res)
  THEN [Env(Absent, Bool(FALSE), Absent) EXCEPT !.message = Str(res.v)]
  ELSE Env(Absent, Bool(TRUE), res)

\* { success: !(res instanceof Failure),
\*   data: res instanceof Failure ? res.message : res }
ResultReply(res) ==
  Env(Absent,
      Bool(~InstanceofFailure(res)),
      IF InstanceofFailure(res) THEN Str(res.v) ELSE res)

\* ------------------------------------------------ what callers and handlers do
Reqs == {Undefined, Str("q")}
Payloads == {Undefined, Obj("tab")}
FailureMessages == {"", "m"}
\* A handler body returns success(x) or failure(m) ...
Returned ==
  {success(x) : x \in Payloads} \cup {failure(Str(m)) : m \in FailureMessages}
\* ... or throws / rejects with an Error or with any other value.
Thrown == {Err("boom"), Err(""), Str("oops")}
\* What the host reports when it cannot deliver.
NoReceiverDiag == "Could not establish connection. Receiving end does not exist."
PortClosedDiag == "The message port closed before a response was received."
\* The TypeError of reading `.error` of undefined.
UndefinedMessageText == "Cannot read properties of undefined (reading 'error')"
\* What the onError hook can do.
\* What an onRequest / onResponse hook can do.
HookOutcomes == {"absent", "returns", "throws"}
OnErrorOutcomes == {"absent", "void", "failure", "nonFailure", "throws"}
FallbackFailure == failure(Str("fallback"))
HookException == Err("hook")

\* --------------------------------------------------------------------- state
VARIABLES
  receivers,  \* the Receivers in the order their listeners were installed
  lastOn,     \* the latest Receiver.on() call and whether it threw
  calls,      \* the sender side of each call
  chan,       \* the transport's view of each call
  disp,       \* per call, what each Receiver's listener did with the message
  built       \* the results user code made with success() and failure()

vars == <<receivers, lastOn, calls, chan, disp, built>>

CallIds == 1..MaxCalls
\* What a hook call evaluated to, and the mark of a hook never reached.
NotCalled == [threw |-> FALSE, value |-> Absent]
NoCall == [pc |-> "idle", scope |-> "", name |-> "", req |-> Undefined,
           result |-> Undefined, onError |-> <<>>, onErrorResult |-> NotCalled]
NoRequest == [scope |-> "", name |-> "", req |-> Absent]
NoChan == [state |-> "none", message |-> Fieldless("undefined"),
           request |-> NoRequest, sender |-> Absent,
           response |-> Env(Absent, Absent, Absent), from |-> 0, diag |-> ""]
\* chrome.runtime.MessageSender: what the host tells the listeners about the
\* origin of a message; one object per message.
MessageSender(c) == Obj(<<"tab 1", "tab 2", "tab 3", "tab 4">>[c])
NoOn == [r |-> 0, name |-> "", threw |-> FALSE]

\* private _handlers: MessageHandlers<TDefs> = {}
EmptyHandlers == [n \in Names |-> NoHandler]

\* name in this._handlers: own keys and the keys of Object.prototype
In(name, handlers) == handlers[name] # NoHandler \/ name \in ProtoNames

\* this._handlers[name]: the own entry, else what Object.prototype holds
ProtoHandler(name) == "Object.prototype." \o name
Lookup(handlers, name) ==
  IF name \in DOMAIN handlers /\ handlers[name] # NoHandler THEN handlers[name]
  ELSE IF name \in ProtoNames THEN ProtoHandler(name)
  ELSE NoHandler

Init ==
  /\ receivers = <<>>
  /\ lastOn = NoOn
  /\ calls = [c \in CallIds |-> NoCall]
  /\ chan = [c \in CallIds |-> NoChan]
  /\ disp = [c \in CallIds |-> <<>>]
  /\ built = <<>>

\* receive(scope): new Receiver(scope, options) installs one more listener
Receive(scope) ==
  /\ Len(receivers) < MaxReceivers
  /\ receivers' = Append(receivers, [scope |-> scope, handlers |-> EmptyHandlers])
  /\ UNCHANGED <<lastOn, calls, chan, disp, built>>

\* Receiver.on without the duplicate check: the later handler replaces the
\* earlier one.
OnMutOverwrite(r, name, handler) ==
  /\ r \in 1..Len(receivers)
  /\ lastOn' = [r |-> r, name |-> name, threw |-> FALSE]
  /\ receivers' = [receivers EXCEPT ![r].handlers[name] = handler]
  /\ UNCHANGED <<calls, chan, disp, built>>

\* Receiver.on(name, handler)
On(r, name, handler) ==
  /\ r \in 1..Len(receivers)
  /\ IF In(name, receivers[r].handlers)
     THEN /\ lastOn' = [r |-> r, name |-> name, threw |-> TRUE]
          /\ UNCHANGED receivers
     ELSE /\ lastOn' = [r |-> r, name |-> name, threw |-> FALSE]
          /\ receivers' = [receivers EXCEPT ![r].handlers[name] = handler]
  /\ UNCHANGED <<calls, chan, disp, built>>

\* ------------------------------------------------------------- sending side
\* sender(scope)[name](req), up to the await:
\* chrome.runtime.sendMessage({ scope, name, req })
Send(c, scope, name, req) ==
  /\ calls[c].pc = "idle"
  /\ calls' = [calls EXCEPT ![c] = [NoCall EXCEPT !.pc = "sent", !.scope = scope,
                                                  !.name = name, !.req = req]]
  /\ chan' = [chan EXCEPT ![c] = [NoChan EXCEPT
                 !.state = "queued",
                 !.sender = MessageSender(c),
                 !.message = RequestMessage(scope, name, req),
                 !.request = [scope |-> scope, name |-> name, req |-> WireField(req)]]]
  /\ UNCHANGED <<receivers, lastOn, disp, built>>

\* chrome.runtime.sendMessage(message) by code that does not use the proxy:
\* no call of the proxy is pending for it.
SendRaw(c, message) ==
  /\ calls[c].pc = "idle"
  /\ chan[c].state = "none"
  /\ chan' = [chan EXCEPT ![c] = [NoChan EXCEPT
                 !.state = "queued",
                 !.sender = MessageSender(c),
                 !.message = message,
                 !.request = IF _typed(message) THEN Destructure(message)
                             ELSE NoRequest]]
  /\ UNCHANGED <<receivers, lastOn, calls, disp, built>>

\* ----------------------------------------------------------- receiving side
\* What a listener did with one message. scope, name and req are the
\* locals destructured from the message, onRequest and onResponse the
\* arguments of the calls made to the two hooks, sender the second argument
\* of the handler call, log the order of the hook
\* calls, the handler call and the sendMessage calls.
IgnoredDispatch ==
  [status |-> "ignored", scope |-> "", name |-> "", handler |-> NoHandler,
   req |-> Undefined, sender |-> Absent, res |-> Undefined, e |-> Absent,
   log |-> <<>>,
   onRequest |-> <<>>, onResponse |-> <<>>, replies |-> <<>>, ret |-> FALSE]

\* try { options.<hook>?.(ctx) } catch (e) { console.error(e) }
\* No call when the hook is not configured; an exception of the hook ends
\* in the catch and leaves nothing behind but the console line.
HookCall(hook, ctx) ==
  IF hook = "absent" THEN <<>> ELSE <<ctx>>

\* What calling the looked-up handler can do before its first suspension:
\* a handler body may throw at once; Object.prototype.toString returns.
SyncThrows(handler) ==
  IF handler \in HandlerIds THEN {Absent} \cup Thrown ELSE {Absent}

\* How the awaited handler call can end: [threw, value]
Outcomes(handler) ==
  IF handler \in HandlerIds
  THEN {[threw |-> FALSE, value |-> v] : v \in Returned}
       \cup {[threw |-> TRUE, value |-> e] : e \in Thrown}
  ELSE {[threw |-> FALSE, value |-> Str("[object Undefined]")]}

\* The listener without `if (message.scope !== this._scope) return`.
ListenerMutNoScopeCheck(rcv, message, sender, onRequest, sync) ==
    LET handler == Lookup(rcv.handlers, message.name)
        req == Prop(message, "req")
        hooked == IF onRequest = "absent" THEN <<>> ELSE <<"onRequest">>
        accepted == [IgnoredDispatch EXCEPT !.scope = message.scope,
                                            !.name = message.name,
                                            !.req = req]
        called == [accepted EXCEPT
                     !.handler = handler,
                     !.sender = sender,
                     !.onRequest = HookCall(onRequest,
                                      [scope |-> message.scope,
                                       name |-> message.name, req |-> req])]
    IN IF handler = NoHandler
       THEN [accepted EXCEPT !.status = "nohandler",
                             !.log = <<"sendMessage">>,
                             !.replies = <<NoHandlerReply>>]
       ELSE IF sync = Absent
       THEN [called EXCEPT !.status = "running",
                           !.log = hooked \o <<"handler">>,
                           !.ret = TRUE]
       ELSE [called EXCEPT !.status = "threw", !.e = sync,
                           !.log = hooked \o <<"handler", "sendMessage">>,
                           !.replies = <<ErrorReply(sync)>>,
                           !.ret = TRUE]

\* The listener calling onRequest only after it has started the handler.
ListenerMutHookAfterHandler(rcv, message, sender, onRequest, sync) ==
  IF message.scope # rcv.scope THEN IgnoredDispatch
  ELSE
    LET handler == Lookup(rcv.handlers, message.name)
        req == Prop(message, "req")
        hooked == IF onRequest = "absent" THEN <<>> ELSE <<"onRequest">>
        accepted == [IgnoredDispatch EXCEPT !.scope = message.scope,
                                            !.name = message.name,
                                            !.req = req]
        called == [accepted EXCEPT
                     !.handler = handler,
                     !.sender = sender,
                     !.onRequest = HookCall(onRequest,
                                      [scope |-> message.scope,
                                       name |-> message.name, req |-> req])]
    IN IF handler = NoHandler
       THEN [accepted EXCEPT !.status = "nohandler",
                             !.log = <<"sendMessage">>,
                             !.replies = <<NoHandlerReply>>]
       ELSE IF sync = Absent
       THEN [called EXCEPT !.status = "running",
                           !.log = <<"handler">> \o hooked,
                           !.ret = TRUE]
       ELSE [called EXCEPT !.status = "threw", !.e = sync,
                           !.log = <<"handler", "sendMessage">> \o hooked,
                           !.replies = <<ErrorReply(sync)>>,
                           !.ret = TRUE]

\* The listener without its final `return true` after starting the async block.
ListenerMutNoReturnTrue(rcv, message, sender, onRequest, sync) ==
  IF message.scope # rcv.scope THEN IgnoredDispatch
  ELSE
    LET handler == Lookup(rcv.handlers, message.name)
        req == Prop(message, "req")
        hooked == IF onRequest = "absent" THEN <<>> ELSE <<"onRequest">>
        accepted == [IgnoredDispatch EXCEPT !.scope = message.scope,
                                            !.name = message.name,
                                            !.req = req]
        called == [accepted EXCEPT
                     !.handler = handler,
                     !.sender = sender,
                     !.onRequest = HookCall(onRequest,
                                      [scope |-> message.scope,
                                       name |-> message.name, req |-> req])]
    IN IF handler = NoHandler
       THEN [accepted EXCEPT !.status = "nohandler",
                             !.log = <<"sendMessage">>,
                             !.replies = <<NoHandlerReply>>]
       ELSE IF sync = Absent
       THEN [called EXCEPT !.status = "running",
                           !.log = hooked \o <<"handler">>]
       ELSE [called EXCEPT !.status = "threw", !.e = sync,
                           !.log = hooked \o <<"handler", "sendMessage">>,
                           !.replies = <<ErrorReply(sync)>>]

\* The listener calling handler(req), without the sender argument.
ListenerMutNoSender(rcv, message, sender, onRequest, sync) ==
  IF message.scope # rcv.scope THEN IgnoredDispatch
  ELSE
    LET handler == Lookup(rcv.handlers, message.name)
        req == Prop(message, "req")
        hooked == IF onRequest = "absent" THEN <<>> ELSE <<"onRequest">>
        accepted == [IgnoredDispatch EXCEPT !.scope = message.scope,
                                            !.name = message.name,
                                            !.req = req]
        called == [accepted EXCEPT
                     !.handler = handler,
                     !.sender = Undefined,
                     !.onRequest = HookCall(onRequest,
                                      [scope |-> message.scope,
                                       name |-> message.name, req |-> req])]
    IN IF handler = NoHandler
       THEN [accepted EXCEPT !.status = "nohandler",
                             !.log = <<"sendMessage">>,
                             !.replies = <<NoHandlerReply>>]
       ELSE IF sync = Absent
       THEN [called EXCEPT !.status = "running",
                           !.log = hooked \o <<"handler">>,
                           !.ret = TRUE]
       ELSE [called EXCEPT !.status = "threw", !.e = sync,
                           !.log = hooked \o <<"handler", "sendMessage">>,
                           !.replies = <<ErrorReply(sync)>>,
                           !.ret = TRUE]

\* The listener of one Receiver, up to its return: the scope check, the
\* lookup, the onRequest hook and the start of the async block.
\* `sync` is what the handler call throws at once (Absent: it suspends).
Listener(rcv, message, sender, onRequest, sync) ==
  IF message.scope # rcv.scope THEN IgnoredDispatch
  ELSE
    LET handler == Lookup(rcv.handlers, message.name)
        req == Prop(message, "req")
        hooked == IF onRequest = "absent" THEN <<>> ELSE <<"onRequest">>
        accepted == [IgnoredDispatch EXCEPT !.scope = message.scope,
                                            !.name = message.name,
                                            !.req = req]
        called == [accepted EXCEPT
                     !.handler = handler,
                     !.sender = sender,
                     !.onRequest = HookCall(onRequest,
                                      [scope |-> message.scope,
                                       name |-> message.name, req |-> req])]
    IN IF handler = NoHandler
       THEN [accepted EXCEPT !.status = "nohandler",
                             !.log = <<"sendMessage">>,
                             !.replies = <<NoHandlerReply>>]
       ELSE IF sync = Absent
       THEN [called EXCEPT !.status = "running",
                           !.log = hooked \o <<"handler">>,
                           !.ret = TRUE]
       ELSE [called EXCEPT !.status = "threw", !.e = sync,
                           !.log = hooked \o <<"handler", "sendMessage">>,
                           !.replies = <<ErrorReply(sync)>>,
                           !.ret = TRUE]

\* The callback given to chrome.runtime.onMessage.addListener: the guard
\* on the shape of the message, then the rest of the listener.
OnMessage(rcv, message, sender, onRequest, sync) ==
  IF ~_typed(message) THEN IgnoredDispatch
  ELSE Listener(rcv, Destructure(message), sender, onRequest, sync)

\* The async block without the `return` of its catch: after the error reply
\* it goes on to the hook and the result reply.
SettleMutNoReturn(d, outcome, onResponse) ==
  [d EXCEPT !.status = IF outcome.threw THEN "threw" ELSE "replied",
            !.e = IF outcome.threw THEN outcome.value ELSE Absent,
            !.res = IF outcome.threw THEN Undefined ELSE outcome.value,
            !.log = d.log
                    \o (IF outcome.threw THEN <<"sendMessage">> ELSE <<>>)
                    \o (IF onResponse = "absent" THEN <<>> ELSE <<"onResponse">>)
                    \o <<"sendMessage">>,
            !.replies = d.replies
                        \o (IF outcome.threw THEN <<ErrorReply(outcome.value)>> ELSE <<>>)
                        \o <<ResultReply(IF outcome.threw THEN Undefined
                                                          ELSE outcome.value)>>]

\* The async block with the onResponse call inside the try of the handler
\* call: an exception of the hook is answered like one of the handler.
SettleMutHookInTry(d, outcome, onResponse) ==
  IF outcome.threw
  THEN [d EXCEPT !.status = "threw",
                 !.e = outcome.value,
                 !.log = d.log \o <<"sendMessage">>,
                 !.replies = Append(d.replies, ErrorReply(outcome.value))]
  ELSE IF onResponse = "throws"
  THEN [d EXCEPT !.status = "threw",
                 !.res = outcome.value,
                 !.e = HookException,
                 !.onResponse = HookCall(onResponse,
                                   [scope |-> d.scope, name |-> d.name,
                                    req |-> d.req, res |-> outcome.value]),
                 !.log = d.log \o <<"onResponse", "sendMessage">>,
                 !.replies = Append(d.replies, ErrorReply(HookException))]
  ELSE [d EXCEPT !.status = "replied",
                 !.res = outcome.value,
                 !.onResponse = HookCall(onResponse,
                                   [scope |-> d.scope, name |-> d.name,
                                    req |-> d.req, res |-> outcome.value]),
                 !.log = d.log
                         \o (IF onResponse = "absent" THEN <<>> ELSE <<"onResponse">>)
                         \o <<"sendMessage">>,
                 !.replies = Append(d.replies, ResultReply(outcome.value))]

\* The async block handing the hook the encoded payload instead of res.
SettleMutHookGetsData(d, outcome, onResponse) ==
  IF outcome.threw
  THEN [d EXCEPT !.status = "threw",
                 !.e = outcome.value,
                 !.log = d.log \o <<"sendMessage">>,
                 !.replies = Append(d.replies, ErrorReply(outcome.value))]
  ELSE [d EXCEPT !.status = "replied",
                 !.res = outcome.value,
                 !.onResponse = HookCall(onResponse,
                                   [scope |-> d.scope, name |-> d.name,
                                    req |-> d.req,
                                    res |-> ResultReply(outcome.value).data]),
                 !.log = d.log
                         \o (IF onResponse = "absent" THEN <<>> ELSE <<"onResponse">>)
                         \o <<"sendMessage">>,
                 !.replies = Append(d.replies, ResultReply(outcome.value))]

\* The rest of the async block, once the awaited handler call has ended.
Settle(d, outcome, onResponse) ==
  IF outcome.threw
  THEN [d EXCEPT !.status = "threw",
                 !.e = outcome.value,
                 !.log = d.log \o <<"sendMessage">>,
                 !.replies = Append(d.replies, ErrorReply(outcome.value))]
  ELSE [d EXCEPT !.status = "replied",
                 !.res = outcome.value,
                 !.onResponse = HookCall(onResponse,
                                   [scope |-> d.scope, name |-> d.name,
                                    req |-> d.req, res |-> outcome.value]),
                 !.log = d.log
                         \o (IF onResponse = "absent" THEN <<>> ELSE <<"onResponse">>)
                         \o <<"sendMessage">>,
                 !.replies = Append(d.replies, ResultReply(outcome.value))]

\* ---------------------------------------------------------------- transport
\* sendMessage(reply) of one listener: the first reply of a call is the one
\* the caller gets, a reply to a closed call is dropped.
Reply(ch, r, envelope) ==
  IF ch.state = "open"
  THEN [ch EXCEPT !.state = "response", !.response = Wire(envelope), !.from = r]
  ELSE ch

Min(S) == CHOOSE x \in S : \A y \in S : x <= y

\* The call after every installed listener has returned.
AfterListeners(ch, d) ==
  LET replied == {r \in DOMAIN d : d[r].replies # <<>>}
  IN IF replied # {}
     THEN [ch EXCEPT !.state = "response",
                     !.response = Wire(d[Min(replied)].replies[1]),
                     !.from = Min(replied)]
     ELSE IF \E r \in DOMAIN d : d[r].ret
     THEN [ch EXCEPT !.state = "open"]
     ELSE IF DOMAIN d = {}
     THEN [ch EXCEPT !.state = "rejected", !.diag = NoReceiverDiag]
     ELSE [ch EXCEPT !.state = "noenvelope"]

\* The host hands the message to every installed listener, in order.
Deliver(c) ==
  /\ chan[c].state = "queued"
  /\ \E onRequest \in [1..Len(receivers) -> HookOutcomes],
        sync \in [1..Len(receivers) -> {Absent} \cup Thrown] :
       /\ \A r \in 1..Len(receivers) :
            LET message == Destructure(chan[c].message)
                invoked == /\ _typed(chan[c].message)
                           /\ receivers[r].scope = message.scope
                           /\ Lookup(receivers[r].handlers, message.name) # NoHandler
            IN /\ sync[r] \in SyncThrows(Lookup(receivers[r].handlers, message.name))
               /\ ~invoked => sync[r] = Absent /\ onRequest[r] = "absent"
       /\ LET d == [r \in 1..Len(receivers) |->
                     OnMessage(receivers[r], chan[c].message, chan[c].sender,
                               onRequest[r], sync[r])]
          IN /\ disp' = [disp EXCEPT ![c] = d]
             /\ chan' = [chan EXCEPT ![c] = AfterListeners(chan[c], d)]
  /\ UNCHANGED <<receivers, lastOn, calls, built>>

\* A Receiver keeping the reply callback in a field that every incoming
\* message overwrites: the async block replies through the callback of the
\* message received last.
HandlerSettleMutSharedCallback(c, r) ==
  /\ r \in DOMAIN disp[c]
  /\ disp[c][r].status = "running"
  /\ \E outcome \in Outcomes(disp[c][r].handler), onResponse \in HookOutcomes :
       LET d == Settle(disp[c][r], outcome, onResponse)
           got == {k \in DOMAIN chan : chan[k].state \notin {"none", "queued"}}
           last == CHOOSE k \in got : \A j \in got : j <= k
       IN /\ disp' = [disp EXCEPT ![c][r] = d]
          /\ chan' = [chan EXCEPT ![last] = Reply(chan[last], r, d.replies[Len(d.replies)])]
  /\ UNCHANGED <<receivers, lastOn, calls, built>>

\* A Receiver whose handlers serve one message: the async block deletes
\* the entry it has just called, delete this._handlers[name].
HandlerSettleMutOnce(c, r) ==
  /\ r \in DOMAIN disp[c]
  /\ disp[c][r].status = "running"
  /\ \E outcome \in Outcomes(disp[c][r].handler), onResponse \in HookOutcomes :
       LET d == Settle(disp[c][r], outcome, onResponse)
       IN /\ disp' = [disp EXCEPT ![c][r] = d]
          /\ chan' = [chan EXCEPT ![c] = Reply(chan[c], r, d.replies[Len(d.replies)])]
  /\ receivers' = [receivers EXCEPT ![r].handlers[disp[c][r].name] = NoHandler]
  /\ UNCHANGED <<lastOn, calls, built>>

\* The async block with an unguarded onResponse call: when the hook throws
\* the block ends there and nothing is passed to the reply callback.
HandlerSettleMutHookUnguarded(c, r) ==
  /\ r \in DOMAIN disp[c]
  /\ disp[c][r].status = "running"
  /\ \E outcome \in Outcomes(disp[c][r].handler), onResponse \in HookOutcomes :
       IF ~outcome.threw /\ onResponse = "throws"
       THEN /\ disp' = [disp EXCEPT ![c][r].status = "threw",
                                    ![c][r].e = HookException,
                                    ![c][r].res = outcome.value,
                                    ![c][r].log = disp[c][r].log \o <<"onResponse">>]
            /\ chan' = chan
       ELSE LET d == Settle(disp[c][r], outcome, onResponse)
            IN /\ disp' = [disp EXCEPT ![c][r] = d]
               /\ chan' = [chan EXCEPT ![c] = Reply(chan[c], r, d.replies[Len(d.replies)])]
  /\ UNCHANGED <<receivers, lastOn, calls, built>>

\* The awaited handler call of one dispatch ends and its async block runs on.
HandlerSettle(c, r) ==
  /\ r \in DOMAIN disp[c]
  /\ disp[c][r].status = "running"
  /\ \E outcome \in Outcomes(disp[c][r].handler), onResponse \in HookOutcomes :
       LET d == Settle(disp[c][r], outcome, onResponse)
       IN /\ disp' = [disp EXCEPT ![c][r] = d]
          /\ chan' = [chan EXCEPT ![c] = Reply(chan[c], r, d.replies[Len(d.replies)])]
  /\ UNCHANGED <<receivers, lastOn, calls, built>>

\* The channel breaks before a reply arrived (service worker stopped, ...).
TransportFail(c) ==
  /\ chan[c].state \in {"queued", "open"}
  /\ chan' = [chan EXCEPT ![c].state = "rejected", ![c].diag = PortClosedDiag]
  /\ UNCHANGED <<receivers, lastOn, calls, disp, built>>

\* ------------------------------------------------- sending side, continued
\* The try block deciding on the payload instead of the success flag.
TryMutDataDecides(ch) ==
  CASE ch.state = "rejected" -> [threw |-> TRUE, value |-> Err(ch.diag)]
    [] ch.state = "noenvelope" -> [threw |-> TRUE, value |-> Err(UndefinedMessageText)]
    [] OTHER ->
         LET message == ch.response
         IN IF Truthy(Prop(message, "error"))
            THEN [threw |-> TRUE, value |-> Prop(message, "error")]
            ELSE [threw |-> FALSE,
                  value |-> IF Prop(message, "data") # Undefined
                            THEN Prop(message, "data")
                            ELSE failure(Prop(message, "data"))]

\* The try block treating an unsuccessful envelope as an exception:
\*   if (!message.success) throw message.data
TryMutThrowsFailure(ch) ==
  CASE ch.state = "rejected" -> [threw |-> TRUE, value |-> Err(ch.diag)]
    [] ch.state = "noenvelope" -> [threw |-> TRUE, value |-> Err(UndefinedMessageText)]
    [] OTHER ->
         LET message == ch.response
         IN IF Truthy(Prop(message, "error"))
            THEN [threw |-> TRUE, value |-> Prop(message, "error")]
            ELSE IF Truthy(Prop(message, "success"))
            THEN [threw |-> FALSE, value |-> Prop(message, "data")]
            ELSE [threw |-> TRUE, value |-> Prop(message, "data")]

\* The try block after the await: [threw, value].
\*   const message = await chrome.runtime.sendMessage(...)
\*   if (message.error) throw message.error
\*   return message.success ? message.data : failure(message.data)
Try(ch) ==
  CASE ch.state = "rejected" -> [threw |-> TRUE, value |-> Err(ch.diag)]
    [] ch.state = "noenvelope" -> [threw |-> TRUE, value |-> Err(UndefinedMessageText)]
    [] OTHER ->
         LET message == ch.response
         IN IF Truthy(Prop(message, "error"))
            THEN [threw |-> TRUE, value |-> Prop(message, "error")]
            ELSE [threw |-> FALSE,
                  value |-> IF Truthy(Prop(message, "success"))
                            THEN Prop(message, "data")
                            ELSE failure(Prop(message, "data"))]

\* new MessagingError(scope, name, String(e))
ClassifyMutStringify(scope, name, e) ==
  MessagingError(scope, name, String(e))

\* new MessagingError(scope, '', ...): the error without the name of the call
ClassifyMutNoName(scope, name, e) ==
  MessagingError(scope, "", IF InstanceofError(e) THEN e.v ELSE String(e))

\* new MessagingError(scope, name, e instanceof Error ? e.message : String(e))
Classify(scope, name, e) ==
  MessagingError(scope, name, IF InstanceofError(e) THEN e.v ELSE String(e))

\* What options.onError?.(error) evaluates to: [threw, value]
OnErrorResult(onError) ==
  CASE onError = "failure" -> [threw |-> FALSE, value |-> FallbackFailure]
    [] onError = "nonFailure" -> [threw |-> FALSE, value |-> Obj("other")]
    [] onError = "throws" -> [threw |-> TRUE, value |-> HookException]
    [] OTHER -> [threw |-> FALSE, value |-> Undefined]

\* The catch block that never consults the hook's result: throw error.
CatchMutAlwaysThrows(call, e, onError) ==
  LET error == Classify(call.scope, call.name, e)
      result == OnErrorResult(onError)
      seen == IF onError = "absent" THEN <<>> ELSE <<error>>
  IN [call EXCEPT !.pc = "rejected",
                  !.result = IF result.threw THEN result.value ELSE error,
                  !.onError = seen, !.onErrorResult = result]

\* The catch block returning whatever the hook gave: if (result) return result
CatchMutReturnsTruthy(call, e, onError) ==
  LET error == Classify(call.scope, call.name, e)
      result == OnErrorResult(onError)
      seen == IF onError = "absent" THEN <<>> ELSE <<error>>
  IN IF result.threw
     THEN [call EXCEPT !.pc = "rejected", !.result = result.value,
                       !.onError = seen, !.onErrorResult = result]
     ELSE IF Truthy(result.value)
     THEN [call EXCEPT !.pc = "resolved", !.result = result.value,
                       !.onError = seen, !.onErrorResult = result]
     ELSE [call EXCEPT !.pc = "rejected", !.result = error,
                       !.onError = seen, !.onErrorResult = result]

\* The catch block: the call as it ends.
\*   const error = new MessagingError(scope, name, errorMessage)
\*   const result = options.onError?.(error)
\*   if (result instanceof Failure) return result
\*   throw error
\* An exception of the hook leaves the block in place of `error`.
Catch(call, e, onError) ==
  LET error == Classify(call.scope, call.name, e)
      result == OnErrorResult(onError)
      seen == IF onError = "absent" THEN <<>> ELSE <<error>>
  IN IF result.threw
     THEN [call EXCEPT !.pc = "rejected", !.result = result.value,
                       !.onError = seen, !.onErrorResult = result]
     ELSE IF InstanceofFailure(result.value)
     THEN [call EXCEPT !.pc = "resolved", !.result = result.value,
                       !.onError = seen, !.onErrorResult = result]
     ELSE [call EXCEPT !.pc = "rejected", !.result = error,
                       !.onError = seen, !.onErrorResult = result]

\* The async arrow function of the proxy, from the await to its end.
SenderSettle(c) ==
  /\ calls[c].pc = "sent"
  /\ chan[c].state \in {"response", "noenvelope", "rejected"}
  /\ LET tried == Try(chan[c])
     IN IF tried.threw
        THEN \E onError \in OnErrorOutcomes :
               calls' = [calls EXCEPT ![c] = Catch(calls[c], tried.value, onError)]
        ELSE calls' = [calls EXCEPT ![c].pc = "resolved", ![c].result = tried.value]
  /\ UNCHANGED <<receivers, lastOn, chan, disp, built>>

Next ==
  \/ \E scope \in Scopes : Receive(scope)
  \/ \E r \in 1..MaxReceivers, name \in Names, handler \in HandlerIds :
       On(r, name, handler)
  \/ \E c \in CallIds, scope \in SenderScopes, name \in Names, req \in Reqs :
       Send(c, scope, name, req)
  \/ \E c \in CallIds : Deliver(c)
  \/ \E c \in CallIds, r \in 1..MaxReceivers : HandlerSettle(c, r)
  \/ \E c \in CallIds : TransportFail(c)
  \/ \E c \in CallIds : SenderSettle(c)

Spec == Init /\ [][Next]_vars

\* ------------------------------------------------ several messages in flight
\* One Receiver, const storageReceiver = receive('storage'), and up to
\* MaxInFlight calls of the proxy that are open at the same time.
InFlightIds == 1..MaxInFlight

InitInFlight ==
  /\ receivers = <<[scope |-> "storage", handlers |-> EmptyHandlers]>>
  /\ lastOn = NoOn
  /\ calls = [c \in InFlightIds |-> NoCall]
  /\ chan = [c \in InFlightIds |-> NoChan]
  /\ disp = [c \in InFlightIds |-> <<>>]
  /\ built = <<>>

\* The host hands over the messages one after the other; the calls are
\* numbered in the order in which the listener receives them.
Received(c) == chan[c].state \notin {"none", "queued"}

\* A listener that queues: it takes the next message only when the async
\* block of every earlier message has ended.
DeliverInOrderMutQueued(c) ==
  /\ \A k \in 1..(c - 1) : Received(k)
  /\ \A k \in 1..(c - 1) : \A r \in DOMAIN disp[k] : disp[k][r].status # "running"
  /\ Deliver(c)

DeliverInOrder(c) ==
  /\ \A k \in 1..(c - 1) : Received(k)
  /\ Deliver(c)

NextInFlight ==
  \/ \E name \in Names, handler \in HandlerIds : On(1, name, handler)
  \/ \E c \in InFlightIds, scope \in SenderScopes, name \in Names, req \in Reqs :
       Send(c, scope, name, req)
  \/ \E c \in InFlightIds : DeliverInOrder(c)
  \/ \E c \in InFlightIds : HandlerSettle(c, 1)
  \/ \E c \in InFlightIds : SenderSettle(c)

SpecInFlight == InitInFlight /\ [][NextInFlight]_vars

\* The same calls with handlers that complete: the promise of every handler
\* call settles, and the event loop then runs the continuation of the
\* `await` (a microtask no other task can starve).
SpecLive ==
  /\ InitInFlight
  /\ [][NextInFlight]_vars
  /\ \A c \in InFlightIds : WF_vars(HandlerSettle(c, 1))

\* ------------------------------------------- any response the host delivers
\* chrome.runtime.sendMessage resolves with whatever the first listener to
\* answer passed to its reply callback; that listener need not be a
\* Receiver. The envelopes such a listener can send:
ForeignErrors == {Absent, Str(""), Str("e")}
ForeignFlags == {Absent, Bool(TRUE), Bool(FALSE)}
ForeignData == {Absent, Str("m"), Obj("tab")}
ForeignEnvelopes ==
  {Env(e, f, d) : e \in ForeignErrors, f \in ForeignFlags, d \in ForeignData}

\* A listener other than a Receiver answers the message.
ForeignReply(c, envelope) ==
  /\ chan[c].state = "queued"
  /\ chan' = [chan EXCEPT ![c].state = "response",
                          ![c].response = Wire(envelope)]
  /\ UNCHANGED <<receivers, lastOn, calls, disp, built>>

NextDecode ==
  \/ \E c \in CallIds, scope \in SenderScopes, name \in Names, req \in Reqs :
       Send(c, scope, name, req)
  \/ \E c \in CallIds, envelope \in ForeignEnvelopes : ForeignReply(c, envelope)
  \/ \E c \in CallIds : SenderSettle(c)

SpecDecode == Init /\ [][NextDecode]_vars

\* ----------------------------------------- any message the host hands over
\* The Receivers with messages that do not come from the proxy.
NextRaw ==
  \/ \E scope \in Scopes : Receive(scope)
  \/ \E r \in 1..MaxReceivers, name \in Names, handler \in HandlerIds :
       On(r, name, handler)
  \/ \E c \in CallIds, message \in RawMessages : SendRaw(c, message)
  \/ \E c \in CallIds : Deliver(c)
  \/ \E c \in CallIds, r \in 1..MaxReceivers : HandlerSettle(c, r)

SpecRaw == Init /\ [][NextRaw]_vars

\* ------------------------------------------- several calls of the sender
\* The sending side alone with MaxInFlight calls pending together: each
\* call is answered by some listener, or its channel breaks, and the
\* async functions resume in any order.
NextCalls ==
  \/ \E c \in InFlightIds, scope \in SenderScopes, name \in Names, req \in Reqs :
       Send(c, scope, name, req)
  \/ \E c \in InFlightIds, envelope \in ForeignEnvelopes : ForeignReply(c, envelope)
  \/ \E c \in InFlightIds : TransportFail(c)
  \/ \E c \in InFlightIds : SenderSettle(c)

SpecCalls == InitInFlight /\ [][NextCalls]_vars

\* ------------------------------------------------------- the result helpers
\* What user code passes to success(data) and failure(data): nothing, a
\* string, a payload object, an Error, a MessagingError, and a Failure that
\* came from another context over the wire.
ResultArgs ==
  {Undefined, Str(""), Str("m"), Obj("tab"), Err("boom"),
   MessagingError("storage", "getSettings", "x"), WireField(Failure("m"))}

\* const result = success(data)  /  const result = failure(data)
Construct(helper, data) ==
  /\ Len(built) < MaxBuilt
  /\ built' = Append(built, [helper |-> helper, data |-> data,
                             value |-> IF helper = "failure" THEN failure(data)
                                                            ELSE success(data)])
  /\ UNCHANGED <<receivers, lastOn, calls, chan, disp>>

NextResult ==
  \E helper \in {"success", "failure"}, data \in ResultArgs : Construct(helper, data)

SpecResult == Init /\ [][NextResult]_vars

\* ============================================================== properties
Settled(c) == calls[c].pc \in {"resolved", "rejected"}

\* The reply the transport handed to the caller of c is the one dispatch r sent.
AnsweredBy(c, r) ==
  /\ chan[c].state = "response"
  /\ r \in DOMAIN disp[c]
  /\ chan[c].from = r

\* The dispatches that went to a handler stored with on().
Dispatched(c, r) ==
  /\ r \in DOMAIN disp[c]
  /\ disp[c][r].handler \in HandlerIds

\* C1: on(name, h2) throws whenever a handler is already registered under
\* that name on that Receiver, before or after messages were dispatched; the
\* failed call leaves the registry as it was, so an entry once stored is
\* never replaced and every dispatch to a stored handler went to the handler
\* the registry still holds for that name.
C1_DuplicateOnRejected ==
  /\ [][\A r \in 1..Len(receivers), n \in Names :
          receivers[r].handlers[n] # NoHandler =>
            /\ receivers'[r].handlers[n] = receivers[r].handlers[n]
            /\ (lastOn' # lastOn /\ lastOn'.r = r /\ lastOn'.name = n)
                 => (lastOn'.threw /\ receivers' = receivers)]_vars
  /\ [](\A c \in CallIds, r \in 1..Len(receivers) :
          Dispatched(c, r) =>
            disp[c][r].handler = receivers[r].handlers[chan[c].request.name])

\* A second on() for a stored name has thrown, and a message for that name
\* is being handled by the handler stored first.
C1_Witness ==
  \E c \in CallIds, r \in 1..Len(receivers) :
    /\ lastOn.threw /\ lastOn.r = r /\ lastOn.name = chan[c].request.name
    /\ Dispatched(c, r)
    /\ receivers[r].handlers[lastOn.name] = disp[c][r].handler

\* C2: for every scope and name at most one handler is registered for the
\* address (scope, name), also across the Receivers of several
\* receive(scope) calls for the same scope.
C2_OneHandlerPerAddress ==
  \A r1, r2 \in 1..Len(receivers), n \in Names :
    (r1 # r2 /\ receivers[r1].scope = receivers[r2].scope)
      => ~(receivers[r1].handlers[n] # NoHandler
           /\ receivers[r2].handlers[n] # NoHandler)

\* C3: success round trip: when the handler returned success(x) and its
\* reply is the one the caller got, the call resolves with a value that is
\* a Success, is not a Failure, and equals x.
C3_SuccessRoundTrip ==
  \A c \in CallIds, r \in 1..Len(receivers) :
    (Settled(c) /\ AnsweredBy(c, r) /\ Dispatched(c, r)
       /\ disp[c][r].status = "replied" /\ ~InstanceofFailure(disp[c][r].res))
      => /\ calls[c].pc = "resolved"
         /\ InstanceofSuccess(calls[c].result)
         /\ ~InstanceofFailure(calls[c].result)
         /\ calls[c].result = disp[c][r].res

\* A call answered by a handler that returned success(x), x a payload.
C3_Witness ==
  \E c \in CallIds, r \in 1..Len(receivers) :
    /\ Settled(c) /\ AnsweredBy(c, r) /\ Dispatched(c, r)
    /\ disp[c][r].status = "replied"
    /\ disp[c][r].res = success(Obj("tab"))
    /\ calls[c].result = Obj("tab")

\* C4: failure round trip: when the handler returned failure(m), m any
\* string, and its reply is the one the caller got, the call resolves with
\* a Failure rebuilt on the sending side (no Failure instance crossed the
\* wire) whose message is m.
C4_FailureRoundTrip ==
  \A c \in CallIds, r \in 1..Len(receivers) :
    (Settled(c) /\ AnsweredBy(c, r) /\ Dispatched(c, r)
       /\ disp[c][r].status = "replied" /\ InstanceofFailure(disp[c][r].res))
      => /\ calls[c].pc = "resolved"
         /\ InstanceofFailure(calls[c].result)
         /\ calls[c].result.v = disp[c][r].res.v
         /\ \A f \in DOMAIN chan[c].response :
              ~InstanceofFailure(chan[c].response[f])
         /\ calls[c].onError = <<>>

\* A call answered by a handler that returned failure("").
C4_Witness ==
  \E c \in CallIds, r \in 1..Len(receivers) :
    /\ Settled(c) /\ AnsweredBy(c, r) /\ Dispatched(c, r)
    /\ disp[c][r].status = "replied"
    /\ disp[c][r].res = failure(Str(""))
    /\ calls[c].result = Failure("")

\* C5: when the handler returned success() the call resolves with
\* undefined, which is a Success and not a Failure; the call does not reject.
C5_EmptySuccessRoundTrip ==
  \A c \in CallIds, r \in 1..Len(receivers) :
    (Settled(c) /\ AnsweredBy(c, r) /\ Dispatched(c, r)
       /\ disp[c][r].status = "replied" /\ disp[c][r].res = Undefined)
      => /\ calls[c].pc = "resolved"
         /\ calls[c].result = Undefined
         /\ InstanceofSuccess(calls[c].result)
         /\ chan[c].response.data = Absent

\* A call answered by a handler that returned success().
C5_Witness ==
  \E c \in CallIds, r \in 1..Len(receivers) :
    /\ Settled(c) /\ AnsweredBy(c, r) /\ Dispatched(c, r)
    /\ disp[c][r].status = "replied"
    /\ disp[c][r].res = Undefined
    /\ calls[c].pc = "resolved"

\* The message of an exception: its message if it is an Error, else the
\* value as a string.
ExceptionMessage(e) == IF InstanceofError(e) THEN e.v ELSE String(e)

\* Call c ended as the MessagingError { scope, name, message } of that call:
\* it rejected with it, or onError was consulted with it (and then the call
\* resolves only with a Failure, the one the hook returned).
EndsAsMessagingError(c, message) ==
  LET error == MessagingError(calls[c].scope, calls[c].name, message)
  IN /\ ~InstanceofFailure(error)
     /\ \/ calls[c].pc = "rejected" /\ calls[c].result = error
        \/ /\ calls[c].onError = <<error>>
           /\ calls[c].pc = "resolved" => InstanceofFailure(calls[c].result)

\* Dispatch r of call c accepted the message (scope matched) and found no
\* handler stored with on() under its name.
Unregistered(c, r) ==
  /\ r \in DOMAIN disp[c]
  /\ disp[c][r].status # "ignored"
  /\ disp[c][r].handler \notin HandlerIds

\* C6: for every value a registered handler throws or rejects with, the
\* call it answers ends as a MessagingError carrying the call's scope and
\* name and the exception's message; it resolves only with a Failure the
\* onError hook returned.
C6_HandlerThrowEndsAsMessagingError ==
  \A c \in CallIds, r \in 1..Len(receivers) :
    (Settled(c) /\ AnsweredBy(c, r) /\ Dispatched(c, r)
       /\ disp[c][r].status = "threw")
      => EndsAsMessagingError(c, ExceptionMessage(disp[c][r].e))

\* C7: a call whose name has no registered handler on the Receivers of its
\* scope ends as a MessagingError (rejected, or onError consulted), which
\* is not a Failure.
C7_NoHandlerEndsAsMessagingError ==
  \A c \in CallIds :
    (/\ Settled(c)
     /\ \E r \in DOMAIN disp[c] : Unregistered(c, r)
     /\ \A r \in DOMAIN disp[c] : ~Dispatched(c, r))
      => \E m \in {NoHandlerText, PortClosedDiag} : EndsAsMessagingError(c, m)

\* C8: for every accepted message whose name was never passed to on() on
\* the Receiver, built-in property names included, the Receiver replies
\* with one error envelope { error }, invokes no handler function and calls
\* neither onRequest nor onResponse.
C8_UnregisteredNameGetsErrorOnly ==
  \A c \in CallIds, r \in 1..Len(receivers) :
    Unregistered(c, r)
      => /\ disp[c][r].handler = NoHandler
         /\ Len(disp[c][r].replies) = 1
         /\ disp[c][r].replies[1].error.t = "string"
         /\ disp[c][r].replies[1].success = Absent
         /\ disp[c][r].replies[1].data = Absent
         /\ disp[c][r].log = <<"sendMessage">>

\* C9: when the handler throws at once or its promise rejects, the Receiver
\* replies with exactly one envelope { error: <the exception's message> }
\* that has no success field, and does not call onResponse.
C9_ThrowGetsOneErrorReply ==
  \A c \in CallIds, r \in 1..Len(receivers) :
    (r \in DOMAIN disp[c] /\ disp[c][r].status = "threw")
      => /\ disp[c][r].replies
              = <<Env(Str(ExceptionMessage(disp[c][r].e)), Absent, Absent)>>
         /\ \A i \in DOMAIN disp[c][r].log : disp[c][r].log[i] # "onResponse"

\* A dispatch whose handler threw Error("boom") after onRequest was called.
C9_Witness ==
  \E c \in CallIds, r \in 1..Len(receivers) :
    /\ Dispatched(c, r)
    /\ disp[c][r].status = "threw"
    /\ disp[c][r].e = Err("boom")
    /\ disp[c][r].log = <<"onRequest", "handler", "sendMessage">>

\* C10 as stated: when the transport fails to deliver (sendMessage rejects,
\* or yields no response envelope) the call is classified as the
\* MessagingError of its scope and name whose message is the transport's
\* diagnostic, and it never resolves with a Success.
C10_TransportFailureCarriesDiagnostic ==
  \A c \in CallIds :
    (Settled(c) /\ chan[c].state \in {"rejected", "noenvelope"})
      => EndsAsMessagingError(c, chan[c].diag)

\* C10 as amended: the message is the transport's diagnostic when
\* sendMessage rejects; when it yields no response envelope the message is
\* the text of the TypeError raised by reading `.error` of undefined. In
\* both cases the call is classified as the MessagingError of its scope and
\* name and never resolves with a Success.
C10_TransportFailureClassified ==
  \A c \in CallIds :
    (Settled(c) /\ chan[c].state \in {"rejected", "noenvelope"})
      => EndsAsMessagingError(c, IF chan[c].state = "rejected"
                                 THEN chan[c].diag
                                 ELSE UndefinedMessageText)

\* A call that got no response envelope and rejected.
C10_Witness ==
  \E c \in CallIds :
    /\ chan[c].state = "noenvelope"
    /\ calls[c].pc = "rejected"
    /\ calls[c].result.t = "MessagingError"

\* The call went through the catch block: it was classified as the
\* MessagingError of what the try block threw.
Classified(c) ==
  /\ Settled(c)
  /\ calls[c].onErrorResult # NotCalled
ClassifiedAs(c) ==
  MessagingError(calls[c].scope, calls[c].name,
                 ExceptionMessage(Try(chan[c]).value))

\* C11: whenever a call is classified as a MessagingError and the onError
\* hook, called with that error, returns a Failure F, the call resolves
\* (does not reject) with exactly F.
C11_OnErrorFailureResolves ==
  \A c \in CallIds :
    (/\ Classified(c)
     /\ calls[c].onError = <<ClassifiedAs(c)>>
     /\ ~calls[c].onErrorResult.threw
     /\ InstanceofFailure(calls[c].onErrorResult.value))
      => /\ calls[c].pc = "resolved"
         /\ calls[c].result = calls[c].onErrorResult.value

\* A call whose handler threw Error("boom") and whose onError hook
\* returned the fallback Failure: it resolved with that Failure.
C11_Witness ==
  \E c \in CallIds :
    /\ Classified(c)
    /\ calls[c].onError = <<MessagingError(calls[c].scope, calls[c].name, "boom")>>
    /\ calls[c].onErrorResult = [threw |-> FALSE, value |-> FallbackFailure]
    /\ calls[c].pc = "resolved"
    /\ calls[c].result = FallbackFailure

\* C12: whenever a call is classified as a MessagingError and onError is
\* not configured, returns nothing, or returns a value that is not a
\* Failure, the call rejects with the MessagingError { scope, name, message }
\* of that call and does not resolve.
C12_NoFallbackRejects ==
  \A c \in CallIds :
    (/\ Classified(c)
     /\ ~calls[c].onErrorResult.threw
     /\ ~InstanceofFailure(calls[c].onErrorResult.value))
      => /\ calls[c].pc = "rejected"
         /\ calls[c].result = ClassifiedAs(c)
         /\ calls[c].result.t = "MessagingError"
         /\ calls[c].result.scope = calls[c].scope
         /\ calls[c].result.name = calls[c].name

\* A call that got the no-handler reply and whose onError hook returned a
\* value that is not a Failure: it rejected with the MessagingError.
C12_Witness ==
  \E c \in CallIds :
    /\ Classified(c)
    /\ calls[c].onError # <<>>
    /\ calls[c].onErrorResult = [threw |-> FALSE, value |-> Obj("other")]
    /\ calls[c].pc = "rejected"
    /\ calls[c].result
         = MessagingError(calls[c].scope, calls[c].name, NoHandlerText)

\* The Result an envelope { success, data } stands for.
Decoded(message) ==
  IF Prop(message, "success") = Bool(TRUE)
  THEN success(Prop(message, "data"))
  ELSE Failure(String(Prop(message, "data")))

\* C13: for every delivered response envelope that carries the success
\* discriminant and no error, the call resolves with the decoded Result,
\* does not reject, and onError is not called.
C13_ResultEnvelopeResolves ==
  \A c \in CallIds :
    (/\ Settled(c)
     /\ chan[c].state = "response"
     /\ chan[c].response.success # Absent
     /\ chan[c].response.error = Absent)
      => /\ calls[c].pc = "resolved"
         /\ calls[c].result = Decoded(chan[c].response)
         /\ calls[c].onError = <<>>
         /\ calls[c].onErrorResult = NotCalled

\* A call that got { success: false, data: "m" } and resolved with the
\* Failure of message "m", onError not called.
C13_Witness ==
  \E c \in CallIds :
    /\ chan[c].state = "response"
    /\ chan[c].response = Env(Absent, Bool(FALSE), Str("m"))
    /\ calls[c].pc = "resolved"
    /\ calls[c].result = Failure("m")
    /\ calls[c].onError = <<>>

\* C14: a message whose scope differs from the Receiver's scope is ignored
\* by that Receiver: it sends no reply, looks up and invokes no handler,
\* calls no hook and does not signal an asynchronous response, whatever
\* handlers are registered under the message's name.
C14_OtherScopeIgnored ==
  \A c \in CallIds, r \in 1..Len(receivers) :
    (r \in DOMAIN disp[c] /\ receivers[r].scope # chan[c].request.scope)
      => /\ disp[c][r].status = "ignored"
         /\ disp[c][r].replies = <<>>
         /\ disp[c][r].handler = NoHandler
         /\ disp[c][r].log = <<>>
         /\ disp[c][r].onRequest = <<>>
         /\ disp[c][r].onResponse = <<>>
         /\ ~disp[c][r].ret
         /\ ~AnsweredBy(c, r)

\* A Receiver of scope "tabs" holding a handler for the name of a message
\* sent to scope "storage" was handed that message and did nothing.
C14_Witness ==
  \E c \in CallIds, r \in 1..Len(receivers) :
    /\ r \in DOMAIN disp[c]
    /\ receivers[r].scope = "tabs"
    /\ chan[c].request.scope = "storage"
    /\ receivers[r].handlers[chan[c].request.name] \in HandlerIds
    /\ disp[c][r] = IgnoredDispatch

\* The argument onRequest gets for the message of call c.
RequestContext(c) ==
  [scope |-> calls[c].scope, name |-> calls[c].name, req |-> calls[c].req]

\* C15: for every accepted message with a registered handler, onRequest,
\* if configured, is called exactly once, with { scope, name, req } of that
\* message, and before the handler is invoked, which happens exactly once;
\* if not configured the handler call comes first.
C15_OnRequestOnceBeforeHandler ==
  /\ \A c \in CallIds, r \in 1..Len(receivers) :
       Dispatched(c, r)
         => LET d == disp[c][r]
                n == Len(d.onRequest)
            IN /\ n <= 1
               /\ \A i \in 1..n : d.onRequest[i] = RequestContext(c)
               /\ Len(d.log) > n
               /\ \A i \in DOMAIN d.log :
                    /\ d.log[i] = "onRequest" <=> i <= n
                    /\ d.log[i] = "handler" <=> i = n + 1
  /\ \A c \in CallIds, r \in 1..Len(receivers) :
       \A onRequest \in HookOutcomes \ {"absent"} :
         (/\ chan[c].state # "none"
          /\ receivers[r].scope = chan[c].request.scope
          /\ receivers[r].handlers[chan[c].request.name] \in HandlerIds)
           => \A sync \in SyncThrows(receivers[r].handlers[chan[c].request.name]) :
                LET d == Listener(receivers[r], chan[c].request, chan[c].sender, onRequest, sync)
                IN /\ d.onRequest = <<RequestContext(c)>>
                   /\ d.log[1] = "onRequest"
                   /\ d.log[2] = "handler"

\* A dispatch to a registered handler in which onRequest was called with
\* { scope: "storage", name: "getSettings", req: "q" } and then the handler.
C15_Witness ==
  \E c \in CallIds, r \in 1..Len(receivers) :
    /\ Dispatched(c, r)
    /\ disp[c][r].onRequest
         = <<[scope |-> "storage", name |-> "getSettings", req |-> Str("q")]>>
    /\ disp[c][r].log[1] = "onRequest"
    /\ disp[c][r].log[2] = "handler"

\* The handler call of the dispatch ended normally.
Completed(c, r) ==
  /\ Dispatched(c, r)
  /\ disp[c][r].status = "replied"

\* C16: for every dispatch whose handler completes normally, the reply
\* envelope is sent before the onResponse hook is called: the order is
\* onRequest, handler, encode and reply, onResponse.
C16_ReplyBeforeOnResponse ==
  \A c \in CallIds, r \in 1..Len(receivers) :
    Completed(c, r)
      => \A i, j \in DOMAIN disp[c][r].log :
           (disp[c][r].log[i] = "sendMessage" /\ disp[c][r].log[j] = "onResponse")
             => i < j

\* The argument onResponse gets when the handler of call c returned res.
ResponseContext(c, res) ==
  [scope |-> calls[c].scope, name |-> calls[c].name, req |-> calls[c].req,
   res |-> res]

Count(log, event) == Cardinality({i \in DOMAIN log : log[i] = event})

\* C17: for every dispatch whose handler completes normally, onResponse,
\* if configured, is called exactly once with { scope, name, req, res },
\* where res is the value the handler returned, not its encoding (a Failure
\* instance stays a Failure instance while the reply carries its message);
\* it is called zero times for a dispatch that ends in the no-handler
\* error or in the error of a handler that threw.
C17_OnResponseOnceWithResult ==
  /\ \A c \in CallIds, r \in 1..Len(receivers) :
       (r \in DOMAIN disp[c] /\ disp[c][r].status = "replied")
         => LET d == disp[c][r]
            IN /\ Len(d.onResponse) <= 1
               /\ Count(d.log, "onResponse") = Len(d.onResponse)
               /\ \A i \in DOMAIN d.onResponse :
                    /\ d.onResponse[i] = ResponseContext(c, d.res)
                    /\ d.handler \in HandlerIds
                         => d.onResponse[i].res \in Returned
                    /\ InstanceofFailure(d.onResponse[i].res)
                         <=> d.replies[1].success = Bool(FALSE)
                    /\ InstanceofFailure(d.onResponse[i].res)
                         => d.replies[1].data = Str(d.onResponse[i].res.v)
  /\ \A c \in CallIds, r \in 1..Len(receivers) :
       (r \in DOMAIN disp[c] /\ disp[c][r].status \in {"nohandler", "threw"})
         => /\ disp[c][r].onResponse = <<>>
            /\ Count(disp[c][r].log, "onResponse") = 0
  /\ \A c \in CallIds, r \in 1..Len(receivers) :
       (r \in DOMAIN disp[c] /\ disp[c][r].status = "running")
         => \A outcome \in Outcomes(disp[c][r].handler),
               onResponse \in HookOutcomes \ {"absent"} :
              LET d == Settle(disp[c][r], outcome, onResponse)
              IN d.onResponse = IF outcome.threw THEN <<>>
                                ELSE <<ResponseContext(c, outcome.value)>>

\* A dispatch whose handler returned failure("m"): onResponse was called
\* once with that Failure instance, after onRequest and the handler.
C17_Witness ==
  \E c \in CallIds, r \in 1..Len(receivers) :
    /\ Completed(c, r)
    /\ disp[c][r].onResponse
         = <<[scope |-> "storage", name |-> "getSettings",
              req |-> calls[c].req, res |-> Failure("m")]>>
    /\ disp[c][r].replies = <<Env(Absent, Bool(FALSE), Str("m"))>>
    /\ Count(disp[c][r].log, "onResponse") = 1

\* What a dispatch contributes to the result path: whether and which
\* handler was invoked, the replies sent, and the listener's return value.
ResultPath(d) ==
  [status |-> d.status, handler |-> d.handler,
   invoked |-> Count(d.log, "handler"), replies |-> d.replies, ret |-> d.ret]

\* C18: the dispatcher hooks do not affect the result path. For every
\* message a Receiver is handed and every handler behaviour, the listener
\* and the async block invoke the same handler and send the same reply
\* as without hooks when onRequest and onResponse return or throw; a
\* dispatch whose handler returned replies with the envelope of that return
\* value and no error, whatever hooks were called.
C18_HooksDoNotAffectReply ==
  /\ \A c \in CallIds, r \in 1..Len(receivers) :
       chan[c].state = "queued"
         => \A sync \in SyncThrows(Lookup(receivers[r].handlers, chan[c].request.name)),
               onRequest \in HookOutcomes :
              ResultPath(Listener(receivers[r], chan[c].request, chan[c].sender, onRequest, sync))
                = ResultPath(Listener(receivers[r], chan[c].request, chan[c].sender, "absent", sync))
  /\ \A c \in CallIds, r \in 1..Len(receivers) :
       (r \in DOMAIN disp[c] /\ disp[c][r].status = "running")
         => \A outcome \in Outcomes(disp[c][r].handler), onResponse \in HookOutcomes :
              ResultPath(Settle(disp[c][r], outcome, onResponse))
                = ResultPath(Settle(disp[c][r], outcome, "absent"))
  /\ \A c \in CallIds, r \in 1..Len(receivers) :
       (r \in DOMAIN disp[c] /\ disp[c][r].status = "replied")
         => /\ Count(disp[c][r].log, "handler") = 1
            /\ Len(disp[c][r].replies) = 1
            /\ disp[c][r].replies[1].error = Absent
            /\ disp[c][r].replies[1].success
                 = Bool(~InstanceofFailure(disp[c][r].res))

\* A dispatch that is exactly what the listener and the async block leave
\* when both onRequest and onResponse throw and the handler returns
\* success(tab): the handler was invoked and the reply is the success
\* envelope of tab.
C18_Witness ==
  \E c \in CallIds, r \in 1..Len(receivers) :
    /\ Completed(c, r)
    /\ disp[c][r]
         = Settle(Listener(receivers[r], chan[c].request, chan[c].sender, "throws", Absent),
                  [threw |-> FALSE, value |-> Obj("tab")], "throws")
    /\ disp[c][r].log = <<"onRequest", "handler", "onResponse", "sendMessage">>
    /\ disp[c][r].replies = <<Env(Absent, Bool(TRUE), Obj("tab"))>>

\* C19: when the onError hook throws, the exception is caught at the call
\* site and the call still rejects with the MessagingError
\* { scope, name, message } it was classified as, not with the hook's
\* exception.
C19_OnErrorThrowKeepsOutcome ==
  \A c \in CallIds :
    (Classified(c) /\ calls[c].onErrorResult.threw)
      => /\ calls[c].pc = "rejected"
         /\ calls[c].result = ClassifiedAs(c)

\* The Receiver's scope is the message's: the listener accepted it.
Accepted(c, r) ==
  /\ r \in DOMAIN disp[c]
  /\ receivers[r].scope = chan[c].request.scope

\* C20 as stated: for every accepted message the listener returns true to
\* signal an asynchronous reply, on every path including the one where no
\* handler is registered for the name.
C20_AcceptedReturnsTrue ==
  \A c \in CallIds, r \in 1..Len(receivers) :
    Accepted(c, r) => disp[c][r].ret

\* C20 as amended: for every accepted message the listener returns true
\* exactly when it found a handler to call; when it found none it has
\* already sent the no-handler error reply, synchronously, and returns
\* without signalling an asynchronous reply.
C20_ReturnsTrueIffHandlerCalled ==
  \A c \in CallIds, r \in 1..Len(receivers) :
    Accepted(c, r)
      => /\ disp[c][r].status # "ignored"
         /\ disp[c][r].ret <=> disp[c][r].handler # NoHandler
         /\ disp[c][r].ret <=> Count(disp[c][r].log, "handler") = 1
         /\ ~disp[c][r].ret
              => /\ disp[c][r].status = "nohandler"
                 /\ disp[c][r].replies = <<NoHandlerReply>>

\* One accepted message left a Receiver without a handler for it, whose
\* listener replied at once and did not return true, and a Receiver whose
\* listener returned true and whose handler is still running.
C20_Witness ==
  \E c \in CallIds, r1, r2 \in 1..Len(receivers) :
    /\ Accepted(c, r1) /\ Accepted(c, r2)
    /\ disp[c][r1].status = "nohandler" /\ ~disp[c][r1].ret
    /\ disp[c][r1].replies = <<NoHandlerReply>>
    /\ disp[c][r2].status = "running" /\ disp[c][r2].ret

\* C21: concurrent dispatches are isolated. With several messages in
\* flight on one Receiver, a step of one message's dispatch leaves the
\* dispatch and the reply channel of every other message as they were, and
\* at every moment each dispatch holds the scope, name and req of its own
\* message, its reply is the envelope of its own handler's result (or the
\* error of its own handler's exception), and the response a caller got is
\* the reply of the dispatch of its own message.
C21_DispatchesIsolated ==
  /\ [][\A c, k \in InFlightIds :
          (c # k /\ disp'[c] # disp[c])
            => (disp'[k] = disp[k] /\ chan'[k] = chan[k])]_vars
  /\ [](\A c \in InFlightIds, r \in 1..Len(receivers) :
          r \in DOMAIN disp[c] =>
            LET d == disp[c][r]
            IN /\ d.status # "ignored"
                    => /\ d.scope = calls[c].scope
                       /\ d.name = calls[c].name
                       /\ d.req = calls[c].req
               /\ d.status = "replied" => d.replies = <<ResultReply(d.res)>>
               /\ d.status = "threw" => d.replies = <<ErrorReply(d.e)>>
               /\ d.status = "running" => d.replies = <<>>
               /\ chan[c].state = "response"
                    => /\ chan[c].from \in DOMAIN disp[c]
                       /\ disp[c][chan[c].from].replies # <<>>
                       /\ chan[c].response = Wire(disp[c][chan[c].from].replies[1])
               /\ chan[c].state = "open" => d.replies = <<>>)

\* Two messages for the same name with different payloads were in flight
\* together; the handler of the second returned success(tab) and its
\* caller got that, while the handler of the first then threw and its
\* caller got the error.
C21_Witness ==
  /\ calls[1].name = calls[2].name
  /\ calls[1].req # calls[2].req
  /\ Dispatched(1, 1) /\ Dispatched(2, 1)
  /\ disp[1][1].status = "threw" /\ disp[1][1].e = Err("boom")
  /\ chan[1].response = Wire(ErrorReply(Err("boom")))
  /\ disp[2][1].status = "replied" /\ disp[2][1].res = Obj("tab")
  /\ chan[2].response = Wire(ResultReply(Obj("tab")))
  /\ calls[1].pc = "sent" /\ calls[2].pc = "resolved"

\* C22: no queueing or serialization is imposed on dispatches. A message
\* the host has ready is taken by the listener whatever the state of the
\* dispatches of earlier messages, so the handler of m2 can start before
\* the handler of m1 completes; and every handler that is suspended can be
\* the next to complete and reply, so with two of them suspended both
\* reply orders are possible.
C22_NoQueueing ==
  /\ \A c \in InFlightIds :
       (chan[c].state = "queued" /\ \A k \in 1..(c - 1) : Received(k))
         => ENABLED DeliverInOrder(c)
  /\ \A c \in InFlightIds, r \in 1..Len(receivers) :
       (r \in DOMAIN disp[c] /\ disp[c][r].status = "running")
         => ENABLED HandlerSettle(c, r)

\* m1 was received first and its handler is still suspended, while the
\* handler of m2 has started, completed and replied.
C22_Witness ==
  /\ Dispatched(1, 1) /\ Dispatched(2, 1)
  /\ disp[1][1].status = "running" /\ chan[1].state = "open"
  /\ disp[2][1].status = "replied" /\ chan[2].state = "response"
  /\ chan[2].from = 1

\* C23: the sender checks the error discriminant first. For every
\* delivered response envelope that carries an error field, whatever string
\* it holds (the empty string included) and whether or not a success field
\* is present too, the call is classified as the MessagingError
\* { scope, name, message: error } and is not decoded into a Success or a
\* Failure.
C23_ErrorDiscriminantFirst ==
  \A c \in CallIds :
    (/\ Settled(c)
     /\ chan[c].state = "response"
     /\ chan[c].response.error # Absent)
      => /\ Classified(c)
         /\ EndsAsMessagingError(c, chan[c].response.error.v)

\* C24: a delivered response envelope that has neither a success nor an
\* error discriminant is classified by the sender as a MessagingError; it
\* is not decoded into a Failure or a Success.
C24_MalformedEnvelopeClassified ==
  \A c \in CallIds :
    (/\ Settled(c)
     /\ chan[c].state = "response"
     /\ chan[c].response.error = Absent
     /\ chan[c].response.success = Absent)
      => /\ Classified(c)
         /\ calls[c].pc = "rejected" => calls[c].result.t = "MessagingError"
         /\ calls[c].pc = "resolved"
              => calls[c].result = calls[c].onErrorResult.value

C26_FailureConstructorMessage ==
  \A i \in DOMAIN built :
    built[i].helper = "failure"
      => /\ InstanceofFailure(built[i].value)
         /\ built[i].data = Undefined => built[i].value.v = ""
         /\ built[i].data.t = "string" => built[i].value.v = built[i].data.v
         /\ built[i].data.t = "Error"
              => built[i].value.v = String(built[i].data)

\* C27: Receiver.on(name, handler) does not throw and stores the handler
\* for every name that was not passed to on() on that Receiver before,
\* names of built-in object properties included: an on() call that threw
\* was for a name the Receiver holds a handler for, and one that did not
\* throw left its handler stored under the name.
C27_OnSucceedsForFreshName ==
  lastOn # NoOn
    => /\ lastOn.threw
            => receivers[lastOn.r].handlers[lastOn.name] \in HandlerIds
       /\ ~lastOn.threw
            => receivers[lastOn.r].handlers[lastOn.name] \in HandlerIds

\* The dispatch found no handler and sent the no-handler error.
NoHandlerPath(c, r) ==
  /\ r \in DOMAIN disp[c]
  /\ disp[c][r].status = "nohandler"

\* C28 as stated: the error envelope sent for a message with no registered
\* handler carries the text "no handler for <name>" with <name> replaced
\* by the name of the incoming message.
C28_NoHandlerTextNamesMessage ==
  \A c \in CallIds, r \in 1..Len(receivers) :
    NoHandlerPath(c, r)
      => disp[c][r].replies
           = <<Env(Str("no handler for " \o chan[c].request.name), Absent, Absent)>>

\* C28 as amended: the error envelope sent for a message with no
\* registered handler carries one fixed text that does not contain the
\* name of the message; a caller that got this reply and has no onError
\* fallback rejects with a MessagingError whose message is that text and
\* whose scope and name fields are those of its own call.
C28_NoHandlerTextFixed ==
  \A c \in CallIds, r \in 1..Len(receivers) :
    NoHandlerPath(c, r)
      => /\ disp[c][r].replies = <<Env(Str(NoHandlerText), Absent, Absent)>>
         /\ (AnsweredBy(c, r) /\ calls[c].pc = "rejected"
                /\ ~calls[c].onErrorResult.threw)
              => calls[c].result
                   = MessagingError(calls[c].scope, calls[c].name, NoHandlerText)

\* A call for getSettings, which has no handler, rejected with the
\* MessagingError carrying the fixed text.
C28_Witness ==
  \E c \in CallIds, r \in 1..Len(receivers) :
    /\ NoHandlerPath(c, r)
    /\ AnsweredBy(c, r)
    /\ chan[c].request.name = "getSettings"
    /\ chan[c].response.error = Str(NoHandlerText)
    /\ calls[c].pc = "rejected"
    /\ calls[c].result = MessagingError("storage", "getSettings", NoHandlerText)

\* C29: dispatching never writes the handler registry. Every step that
\* receives or processes a message, or settles a call, leaves every
\* Receiver's registered names and handlers as they were; an entry changes
\* only by an on() call that did not throw, which fills a name that had no
\* handler; no step removes or replaces an entry or a Receiver.
C29_RegistryFrame ==
  [][/\ Len(receivers') >= Len(receivers)
     /\ \A r \in 1..Len(receivers) :
          /\ receivers'[r].scope = receivers[r].scope
          /\ \A n \in Names :
               receivers'[r].handlers[n] # receivers[r].handlers[n]
                 => /\ receivers[r].handlers[n] = NoHandler
                    /\ receivers'[r].handlers[n] \in HandlerIds
                    /\ lastOn' = [r |-> r, name |-> n, threw |-> FALSE]
     /\ (calls' # calls \/ chan' # chan \/ disp' # disp)
          => receivers' = receivers]_vars

\* A call was made and has settled: one Receiver ignored the message of
\* another scope and one called its handler, which completed; each still
\* holds the handler on() stored.
C29_Witness ==
  \E c \in CallIds, r1, r2 \in 1..Len(receivers) :
    /\ Completed(c, r1)
    /\ receivers[r1].handlers[chan[c].request.name] = disp[c][r1].handler
    /\ r2 \in DOMAIN disp[c]
    /\ disp[c][r2].status = "ignored"
    /\ receivers[r2].handlers["getSettings"] \in HandlerIds
    /\ Settled(c)

\* C30: classification is total and exclusive. For every value v
\* (undefined, plain payloads, Error and MessagingError instances, and
\* Failures that arrived from another context), exactly one of
\* `v instanceof Success` and `v instanceof Failure` is true, and
\* `v instanceof Failure` is true only for the values built by the
\* failure constructor.
C30_ClassificationTotalExclusive ==
  \A i \in DOMAIN built :
    /\ InstanceofSuccess(built[i].value) # InstanceofFailure(built[i].value)
    /\ InstanceofFailure(built[i].value) <=> built[i].helper = "failure"

\* User code holds a MessagingError passed through success(), which is a
\* Success, and the result of failure("m"), which is a Failure.
C30_Witness ==
  \E i, j \in DOMAIN built :
    /\ built[i].helper = "success"
    /\ built[i].value.t = "MessagingError"
    /\ InstanceofSuccess(built[i].value) /\ ~InstanceofFailure(built[i].value)
    /\ built[j].helper = "failure"
    /\ built[j].data = Str("m")
    /\ InstanceofFailure(built[j].value) /\ ~InstanceofSuccess(built[j].value)

\* C31: for every accepted message with a registered handler the handler
\* is invoked exactly once, with the req of that message and with the
\* sender metadata the transport supplied for that message, unchanged; as
\* long as the handler has not completed nothing was replied, and every
\* reply of the dispatch comes after the handler call.
C31_HandlerInvokedOnceWithReqAndSender ==
  \A c \in CallIds, r \in 1..Len(receivers) :
    Dispatched(c, r)
      => LET d == disp[c][r]
         IN /\ Count(d.log, "handler") = 1
            /\ d.req = calls[c].req
            /\ d.sender = MessageSender(c)
            /\ chan[c].sender = MessageSender(c)
            /\ d.status = "running" => d.replies = <<>>
            /\ \A i, j \in DOMAIN d.log :
                 (d.log[i] = "handler" /\ d.log[j] = "sendMessage") => i < j

\* A handler that was called with a req and has replied its result, and
\* one that is still suspended.
C31_Witness ==
  /\ \E c \in CallIds, r \in 1..Len(receivers) :
       /\ Completed(c, r)
       /\ disp[c][r].req = Str("q")
       /\ disp[c][r].sender = MessageSender(c)
       /\ Len(disp[c][r].replies) = 1
  /\ \E c \in CallIds, r \in 1..Len(receivers) :
       /\ Dispatched(c, r)
       /\ disp[c][r].status = "running"

\* The discriminants an envelope has when it arrives.
HasError(envelope) == Wire(envelope).error # Absent
HasSuccess(envelope) == Wire(envelope).success # Absent

\* C32: for every accepted message a Receiver calls the reply callback at
\* most once, whether it found no handler, the handler threw or the
\* handler resolved, and each reply it sends has exactly one of the two
\* discriminants: an error field or a success field, never both and never
\* neither.
C32_OneReplyOneDiscriminant ==
  \A c \in CallIds, r \in 1..Len(receivers) :
    Accepted(c, r)
      => LET d == disp[c][r]
         IN /\ Len(d.replies) <= 1
            /\ Count(d.log, "sendMessage") = Len(d.replies)
            /\ \A i \in DOMAIN d.replies :
                 HasError(d.replies[i]) # HasSuccess(d.replies[i])

\* Two Receivers of the scope took one message: the handler of one threw,
\* the handler of the other returned undefined; each sent one reply, the
\* first with an error field, the second with a success field and no data.
C32_Witness ==
  \E c \in CallIds, r1, r2 \in 1..Len(receivers) :
    /\ Accepted(c, r1) /\ Accepted(c, r2)
    /\ disp[c][r1].status = "threw"
    /\ Len(disp[c][r1].replies) = 1
    /\ HasError(disp[c][r1].replies[1])
    /\ disp[c][r2].status = "replied"
    /\ disp[c][r2].res = Undefined
    /\ Len(disp[c][r2].replies) = 1
    /\ HasSuccess(disp[c][r2].replies[1])

\* The dispatch of call c waits for its handler.
Running(c) ==
  /\ Dispatched(c, 1)
  /\ disp[c][1].status = "running"

\* The dispatch of call c has sent its one reply and the transport has
\* handed that reply to the caller.
GotReply(c) ==
  /\ Dispatched(c, 1)
  /\ disp[c][1].status \in {"replied", "threw"}
  /\ Len(disp[c][1].replies) = 1
  /\ AnsweredBy(c, 1)
  /\ chan[c].response = Wire(disp[c][1].replies[1])

\* C33: every accepted message whose handler completes (returns, resolves,
\* throws or rejects) eventually receives its reply, whatever other
\* dispatches are in flight and whether or not the onResponse hook throws;
\* as long as the handler has not completed no reply is sent and the
\* caller has none, there being no timeout.
C33_CompletedHandlerReplies ==
  /\ \A c \in InFlightIds : Running(c) ~> GotReply(c)
  /\ [](\A c \in InFlightIds :
          Running(c) => /\ disp[c][1].replies = <<>>
                        /\ chan[c].state = "open"
                        /\ calls[c].pc = "sent")

\* Both calls were waiting for their handlers together, and the one that
\* was received later has its reply while the earlier one still waits.
C33_Witness ==
  /\ Running(1)
  /\ GotReply(2)
  /\ Len(disp[2][1].onResponse) = 1

\* C34: when several Receivers of one scope are installed and one of them
\* found a registered handler for the name of a message, the reply the
\* transport hands to the caller is never the no-handler error of another
\* Receiver of that scope: it is the reply of a Receiver that called a
\* registered handler.
C34_NoHandlerReplyNeverFirst ==
  \A c \in CallIds, r1, r2 \in 1..Len(receivers) :
    (/\ Accepted(c, r1) /\ Accepted(c, r2)
     /\ Dispatched(c, r1)
     /\ chan[c].state = "response")
      => ~(/\ AnsweredBy(c, r2)
           /\ disp[c][r2].status = "nohandler"
           /\ chan[c].response = Wire(NoHandlerReply))

\* C35: per sender call onError is invoked at most once; it is invoked
\* only for a call that was classified as a MessagingError (the transport
\* failed or the envelope made the try block throw), and for such a call
\* every configured hook is invoked exactly once; the MessagingError it
\* gets carries the scope and the name of that very call, also when other
\* calls are pending or have settled.
C35_OnErrorOncePerClassifiedCall ==
  /\ \A c \in InFlightIds :
       /\ Len(calls[c].onError) <= 1
       /\ ~Settled(c) => calls[c].onError = <<>>
       /\ (Settled(c) /\ ~Try(chan[c]).threw)
            => calls[c].onError = <<>> /\ calls[c].onErrorResult = NotCalled
       /\ (Settled(c) /\ Try(chan[c]).threw) => Classified(c)
       /\ calls[c].onError # <<>>
            => /\ Classified(c)
               /\ calls[c].onError[1] = ClassifiedAs(c)
               /\ calls[c].onError[1].scope = calls[c].scope
               /\ calls[c].onError[1].name = calls[c].name
  /\ \A c \in InFlightIds :
       (ENABLED SenderSettle(c) /\ Try(chan[c]).threw)
         => \A onError \in OnErrorOutcomes \ {"absent"} :
              Catch(calls[c], Try(chan[c]).value, onError).onError
                = <<ClassifiedAs(c)>>

\* Two calls for different names were pending together; the channel of one
\* broke, the other got an error envelope, and the hook was called once
\* for each with the error of that call.
C35_Witness ==
  /\ calls[1].name # calls[2].name
  /\ Classified(1) /\ Classified(2)
  /\ chan[1].state = "rejected"
  /\ chan[2].state = "response"
  /\ Len(calls[1].onError) = 1 /\ Len(calls[2].onError) = 1
  /\ calls[1].onError[1].name = calls[1].name
  /\ calls[2].onError[1].name = calls[2].name

\* The message of c is not a request envelope: it is null, undefined or a
\* value without fields, or its scope or its name is missing or not a string.
Malformed(c) ==
  /\ chan[c].state # "none"
  /\ \/ chan[c].message.t # "object"
     \/ chan[c].message.scope.t # "string"
     \/ chan[c].message.name.t # "string"

\* C36: an incoming message that is not a well-formed request envelope is
\* ignored by every Receiver, also by one of the scope the message names
\* and one that has handlers: no reply, no handler call, no hook call, and
\* the listener does not return true, so the host keeps no channel open
\* and no response envelope is delivered for it.
C36_MalformedMessageIgnored ==
  \A c \in CallIds :
    Malformed(c)
      => /\ \A r \in DOMAIN disp[c] :
              /\ disp[c][r].status = "ignored"
              /\ disp[c][r].replies = <<>>
              /\ disp[c][r].handler = NoHandler
              /\ disp[c][r].log = <<>>
              /\ disp[c][r].onRequest = <<>> /\ disp[c][r].onResponse = <<>>
              /\ ~disp[c][r].ret
         /\ chan[c].state \notin {"open", "response"}
         /\ \A r \in 1..MaxReceivers : ~ENABLED HandlerSettle(c, r)

\* A message { scope: 'storage' } without a name was handed to a Receiver
\* of scope storage that has a handler, and was ignored.
C36_Witness ==
  \E c \in CallIds, r \in 1..Len(receivers) :
    /\ Malformed(c)
    /\ chan[c].message.scope = Str("storage")
    /\ receivers[r].scope = "storage"
    /\ receivers[r].handlers["getSettings"] # NoHandler
    /\ r \in DOMAIN disp[c]
    /\ disp[c][r] = IgnoredDispatch
    /\ chan[c].state = "noenvelope"

====
